---- MODULE Spec2Model ----
(***************************************************************************)
(* Model of coreference_resolution.py: mention detection (span correction, *)
(* name stitching, duplicate removal, sorting), the cluster list with      *)
(* mergeClustersByMentionIDs, and the CoNLL renderer generate_conll.       *)
(***************************************************************************)
EXTENDS Integers, Sequences, FiniteSets, TLC

VARIABLES
    pc,               \* position in main() / in the function under study
    files,            \* the CoNLL input file and the directory of parse files
    conll_list,       \* the local conll_list of main()
    args,             \* the arguments doc_tags and verbosity of main()
    tree_list,        \* parsed sentences handed to detect_mentions
    mentionID,        \* global counter of make_mention
    sentenceDict,     \* sentNum -> tokens of the sentence
    mention_id_list,  \* global list of mention ids
    mention_dict,     \* global dict id -> Mention
    dict_order,       \* the order in which mention_dict.iteritems() yields the keys
    cluster_list,     \* global list of Cluster objects
    lastCall,         \* arguments of the latest mergeClustersByMentionIDs call
    merge,            \* locals of a running mergeClustersByMentionIDs call
    in_list,          \* the mention_id_list argument of the function under study
    in_dict,          \* the mention_dict argument of the function under study
    output            \* the lines written to the output file

vars == <<pc, files, conll_list, args, tree_list, mentionID, sentenceDict, mention_id_list, mention_dict,
          dict_order, cluster_list, lastCall, merge, in_list, in_dict,
          output>>

\* ------------------------------------------------------------------ bounds

MaxMentions == 3

\* longest mention list handed to stitch_names / remove_duplicates
MaxLen == 3

\* most parse trees of a document, most tokens of a document
MaxTrees == 2

MaxDocTokens == 2

\* ------------------------------------------------------------------ helpers

Max(S) == CHOOSE x \in S : \A y \in S : y <= x

Range(s) == {s[i] : i \in DOMAIN s}

\* every order in which a dict with key set S can be iterated
Perms(S) == {p \in [1..Cardinality(S) -> S] : \A i, j \in DOMAIN p : i # j => p[i] # p[j]}

RemoveAt(s, i) == [j \in 1..(Len(s) - 1) |-> IF j < i THEN s[j] ELSE s[j + 1]]

NoCall == <<>>
NoMerge == [c1 |-> 0, c2 |-> 0, k |-> 0]

\* a local that holds a value, and one that no assignment has bound
Bound(value) == [bound |-> TRUE, value |-> value]
Unbound == [bound |-> FALSE, value |-> <<>>]

\* main() as the command line without options calls it
DefaultArgs == [doc_tags |-> FALSE, verbosity |-> "low"]

\* no input on disk: the function under study is called directly
NoFiles == [conll |-> [present |-> FALSE, lines |-> <<>>], listable |-> FALSE, xml |-> <<>>]

\* ------------------------------------------------------------------ data

Mention(id) ==
    [ID |-> id, sentNum |-> 0, tokenList |-> <<>>, numTokens |-> 0,
     begin |-> 0, end |-> 0, type |-> "", clusterID |-> -1]

Cluster(id) == [ID |-> id, mentionList |-> <<>>]

\* ------------------------------------------------------------------ cluster list

\* initialize_clusters: one cluster per dict entry, in iteration order
initialize_clusters_list(md, order) ==
    [i \in 1..Len(order) |->
        [Cluster(md[order[i]].ID) EXCEPT !.mentionList = <<md[order[i]].ID>>]]

initialize_clusters_dict(md) ==
    [m \in DOMAIN md |-> [md[m] EXCEPT !.clusterID = md[m].ID]]

\* the test of line 270
SameCluster(md, idx1, idx2) == md[idx1].clusterID = md[idx2].clusterID

\* the scan of lines 272-277: the last cluster of the list with this id; 0 when the
\* scan leaves the local unbound
FindClusterIdx(cl, id) ==
    LET S == {i \in DOMAIN cl : cl[i].ID = id}
    IN IF S = {} THEN 0 ELSE Max(S)

\* line 280, for the k-th member of cluster2
AppendStepLost(cl, c1, c2, k) == cl

AppendStep(cl, c1, c2, k) ==
    [cl EXCEPT ![c1].mentionList = Append(@, cl[c2].mentionList[k])]

\* lines 281-283, for the k-th member of cluster2
RetargetStepSkipped(md, cl, c1, c2, k) == md

RetargetStepCasualty(md, cl, c1, c2, k) ==
    [m \in DOMAIN md |->
        IF md[m].ID = cl[c2].mentionList[k]
        THEN [md[m] EXCEPT !.clusterID = cl[c2].ID]
        ELSE md[m]]

RetargetStep(md, cl, c1, c2, k) ==
    [m \in DOMAIN md |->
        IF md[m].ID = cl[c2].mentionList[k]
        THEN [md[m] EXCEPT !.clusterID = cl[c1].ID]
        ELSE md[m]]

\* line 284
DeleteStepKept(cl, c2) == cl

DeleteStep(cl, c2) == RemoveAt(cl, c2)

\* the loop of lines 279-283 from its k-th iteration on
RECURSIVE MergeLoop(_, _, _, _, _)
MergeLoop(cl, md, c1, c2, k) ==
    IF k > Len(cl[c2].mentionList)
    THEN [cl |-> cl, md |-> md]
    ELSE MergeLoop(AppendStep(cl, c1, c2, k), RetargetStep(md, AppendStep(cl, c1, c2, k), c1, c2, k),
                   c1, c2, k + 1)

\* the call raises UnboundLocalError: line 279 reads cluster2, and line 280, in the
\* first iteration of the loop, reads cluster1
MergeRaises(cl, c1, c2) ==
    \/ c2 = 0
    \/ c1 = 0 /\ Len(cl[c2].mentionList) > 0

\* one whole call; err is set when the call raises
mergeClustersByMentionIDs(cl, md, idx1, idx2) ==
    IF SameCluster(md, idx1, idx2)
    THEN [cl |-> cl, md |-> md, err |-> FALSE]
    ELSE LET c1 == FindClusterIdx(cl, md[idx1].clusterID)
             c2 == FindClusterIdx(cl, md[idx2].clusterID)
         IN IF MergeRaises(cl, c1, c2)
            THEN [cl |-> cl, md |-> md, err |-> TRUE]
            ELSE LET r == MergeLoop(cl, md, c1, c2, 1)
                 IN [cl |-> DeleteStep(r.cl, c2), md |-> r.md, err |-> FALSE]

\* ------------------------------------------------------------------ Spec: the cluster store

\* a mention table as detect_mentions leaves it: distinct ids, distinct spans
DetectedMention(id) ==
    [Mention(id) EXCEPT !.sentNum = id, !.begin = 0, !.end = 1, !.numTokens = 1,
                        !.tokenList = <<"w">>, !.type = "NP"]

SortedIds(S) ==
    LET RECURSIVE Asc(_)
        Asc(T) == IF T = {} THEN <<>>
                  ELSE LET m == Max(T) IN Append(Asc(T \ {m}), m)
    IN Asc(S)

InitClusters ==
    /\ pc = "detected"
    /\ \E ids \in SUBSET (0..(MaxMentions - 1)) :
          /\ mention_dict = [m \in ids |-> DetectedMention(m)]
          /\ mention_id_list = SortedIds(ids)
          /\ dict_order \in Perms(ids)
    /\ files = NoFiles
    /\ conll_list = Bound(<<>>)
    /\ args = DefaultArgs
    /\ tree_list = <<>>
    /\ mentionID = MaxMentions
    /\ sentenceDict = <<>>
    /\ cluster_list = <<>>
    /\ lastCall = NoCall
    /\ merge = NoMerge
    /\ in_list = <<>>
    /\ in_dict = <<>>
    /\ output = <<>>

InitializeClusters ==
    /\ pc = "detected"
    /\ cluster_list' = initialize_clusters_list(mention_dict, dict_order)
    /\ mention_dict' = initialize_clusters_dict(mention_dict)
    /\ pc' = "clustered"
    /\ UNCHANGED <<tree_list, mentionID, sentenceDict, mention_id_list, dict_order,
                   lastCall, merge, in_list, in_dict, output,
                   files, conll_list, args>>

Merge ==
    /\ pc = "clustered"
    /\ \E idx1, idx2 \in DOMAIN mention_dict :
          LET r == mergeClustersByMentionIDs(cluster_list, mention_dict, idx1, idx2)
          IN /\ cluster_list' = r.cl
             /\ mention_dict' = r.md
             /\ pc' = IF r.err THEN "crashed" ELSE "clustered"
             /\ lastCall' = <<idx1, idx2>>
    /\ UNCHANGED <<tree_list, mentionID, sentenceDict, mention_id_list, dict_order,
                   merge, in_list, in_dict, output,
                   files, conll_list, args>>

Next == InitializeClusters \/ Merge

Spec == InitClusters /\ [][Next]_vars

\* ------------------------------------------------------------------ SpecSteps: one merge, statement by statement

\* lines 267-277: the call, its early return and the scan for the two clusters
MergeCall ==
    /\ pc = "clustered"
    /\ \E idx1, idx2 \in DOMAIN mention_dict :
          /\ lastCall' = <<idx1, idx2>>
          /\ IF SameCluster(mention_dict, idx1, idx2)
             THEN /\ pc' = "clustered"
                  /\ merge' = NoMerge
             ELSE LET c1 == FindClusterIdx(cluster_list, mention_dict[idx1].clusterID)
                      c2 == FindClusterIdx(cluster_list, mention_dict[idx2].clusterID)
                  IN /\ merge' = [c1 |-> c1, c2 |-> c2, k |-> 1]
                     /\ pc' = IF MergeRaises(cluster_list, c1, c2) THEN "crashed"
                              ELSE IF Len(cluster_list[c2].mentionList) = 0 THEN "delete"
                              ELSE "append"
    /\ UNCHANGED <<tree_list, mentionID, sentenceDict, mention_id_list, mention_dict,
                   dict_order, cluster_list, in_list, in_dict, output,
                   files, conll_list, args>>

\* line 280
MergeAppend ==
    /\ pc = "append"
    /\ cluster_list' = AppendStep(cluster_list, merge.c1, merge.c2, merge.k)
    /\ pc' = "retarget"
    /\ UNCHANGED <<tree_list, mentionID, sentenceDict, mention_id_list, mention_dict,
                   dict_order, lastCall, merge, in_list, in_dict, output,
                   files, conll_list, args>>

\* lines 281-283, then the next iteration of line 279
MergeRetarget ==
    /\ pc = "retarget"
    /\ mention_dict' = RetargetStep(mention_dict, cluster_list, merge.c1, merge.c2, merge.k)
    /\ merge' = [merge EXCEPT !.k = @ + 1]
    /\ pc' = IF merge.k + 1 > Len(cluster_list[merge.c2].mentionList) THEN "delete" ELSE "append"
    /\ UNCHANGED <<tree_list, mentionID, sentenceDict, mention_id_list, dict_order,
                   cluster_list, lastCall, in_list, in_dict, output,
                   files, conll_list, args>>

\* line 284
MergeDelete ==
    /\ pc = "delete"
    /\ cluster_list' = DeleteStep(cluster_list, merge.c2)
    /\ merge' = NoMerge
    /\ pc' = "clustered"
    /\ UNCHANGED <<tree_list, mentionID, sentenceDict, mention_id_list, mention_dict,
                   dict_order, lastCall, in_list, in_dict, output,
                   files, conll_list, args>>

NextSteps == InitializeClusters \/ MergeCall \/ MergeAppend \/ MergeRetarget \/ MergeDelete

SpecSteps == InitClusters /\ [][NextSteps]_vars

\* ------------------------------------------------------------------ properties of the cluster store

ClustersOf(cl, m) == {i \in DOMAIN cl : m \in Range(cl[i].mentionList)}

Members(cl) == UNION {Range(cl[i].mentionList) : i \in DOMAIN cl}

ValidClusterID(cl, md, m) == \E i \in DOMAIN cl : cl[i].ID = md[m].clusterID

ClusterWithID(cl, id) == cl[FindClusterIdx(cl, id)]

\* C1: after initialize_clusters and any sequence of completed merges, every mention
\* id is a member of exactly one cluster, no cluster is empty, and the clusters'
\* members together are exactly the mention ids.
C1_Partition ==
    pc = "clustered" =>
        /\ \A m \in DOMAIN mention_dict : Cardinality(ClustersOf(cluster_list, m)) = 1
        /\ \A i \in DOMAIN cluster_list : cluster_list[i].mentionList # <<>>
        /\ Members(cluster_list) = DOMAIN mention_dict

C1_Witness ==
    /\ pc = "clustered"
    /\ Cardinality(DOMAIN mention_dict) = MaxMentions
    /\ Len(cluster_list) = 1
    /\ Len(cluster_list[1].mentionList) = MaxMentions

\* C2: once mergeClustersByMentionIDs(a, b) has completed, a and b have the same
\* clusterID, and two mentions with the same clusterID keep having the same
\* clusterID through every later merge.
C2_MergeMonotonic ==
    [][(pc = "clustered" /\ pc' = "clustered") =>
          \A a, b \in DOMAIN mention_dict :
             (SameCluster(mention_dict, a, b) \/ lastCall' = <<a, b>>)
                => SameCluster(mention_dict', a, b)]_vars

C2_Witness ==
    /\ pc = "clustered"
    /\ lastCall # NoCall
    /\ \E c \in DOMAIN mention_dict :
          /\ c \notin Range(lastCall)
          /\ cluster_list[FindClusterIdx(cluster_list, mention_dict[c].clusterID)].mentionList[1] = c
          /\ SameCluster(mention_dict, c, lastCall[1])
          /\ SameCluster(mention_dict, c, lastCall[2])
          /\ lastCall[1] # lastCall[2]

\* C3: in every cluster state, a second mergeClustersByMentionIDs(a, b) right after
\* the first leaves cluster_list and every clusterID as the first call left them,
\* and a merge of two mentions of one cluster changes nothing and raises no error.
C3_MergeIdempotent ==
    pc = "clustered" =>
        \A a, b \in DOMAIN mention_dict :
           LET r1 == mergeClustersByMentionIDs(cluster_list, mention_dict, a, b)
               r2 == mergeClustersByMentionIDs(r1.cl, r1.md, a, b)
           IN /\ ~r1.err /\ ~r2.err
              /\ r2.cl = r1.cl /\ r2.md = r1.md
              /\ SameCluster(mention_dict, a, b) =>
                    (r1.cl = cluster_list /\ r1.md = mention_dict)

C3_Witness ==
    /\ pc = "clustered"
    /\ lastCall # NoCall
    /\ lastCall[1] # lastCall[2]
    /\ SameCluster(mention_dict, lastCall[1], lastCall[2])
    /\ Len(cluster_list) = 2

\* C4: a merge of A and B from different clusters keeps A's cluster: it has A's
\* former clusterID and the members of both, B's former members carry that id, no
\* cluster with B's former cluster id is left, and nothing else changes.
C4_SurvivorIsA ==
    [][(pc = "clustered" /\ lastCall' # NoCall
           /\ ~SameCluster(mention_dict, lastCall'[1], lastCall'[2])) =>
          LET idA == mention_dict[lastCall'[1]].clusterID
              idB == mention_dict[lastCall'[2]].clusterID
              cA == ClusterWithID(cluster_list, idA)
              cB == ClusterWithID(cluster_list, idB)
          IN /\ pc' = "clustered"
             /\ Cardinality({i \in DOMAIN cluster_list' : cluster_list'[i].ID = idA}) = 1
             /\ Range(ClusterWithID(cluster_list', idA).mentionList)
                   = Range(cA.mentionList) \cup Range(cB.mentionList)
             /\ ClusterWithID(cluster_list', idA).mentionList = cA.mentionList \o cB.mentionList
             /\ \A m \in Range(cB.mentionList) : mention_dict'[m].clusterID = idA
             /\ \A i \in DOMAIN cluster_list' : cluster_list'[i].ID # idB
             /\ {cluster_list'[i] : i \in {j \in DOMAIN cluster_list' : cluster_list'[j].ID # idA}}
                   = {cluster_list[i] : i \in {j \in DOMAIN cluster_list : cluster_list[j].ID \notin {idA, idB}}}
             /\ Len(cluster_list') = Len(cluster_list) - 1
             /\ \A m \in DOMAIN mention_dict \ Range(cB.mentionList) :
                   mention_dict'[m] = mention_dict[m]
             /\ DOMAIN mention_dict' = DOMAIN mention_dict]_vars

C4_Witness ==
    /\ pc = "clustered"
    /\ lastCall # NoCall
    /\ lastCall[1] # lastCall[2]
    /\ Len(cluster_list) = Cardinality(DOMAIN mention_dict) - 1
    /\ \E i \in DOMAIN cluster_list :
          /\ cluster_list[i].ID = lastCall[1]
          /\ cluster_list[i].mentionList = <<lastCall[1], lastCall[2]>>

\* C9: at every step inside a mergeClustersByMentionIDs call (between the appends of
\* line 280, the clusterID updates of lines 281-283 and the deletion of line 284) no
\* mention id is in the member lists of two clusters and every clusterID is the id
\* of a cluster of cluster_list.
C9_AtomicMerge ==
    pc \in {"clustered", "append", "retarget", "delete"} =>
        /\ \A m \in DOMAIN mention_dict : Cardinality(ClustersOf(cluster_list, m)) <= 1
        /\ \A m \in DOMAIN mention_dict : ValidClusterID(cluster_list, mention_dict, m)

\* ------------------------------------------------------------------ mention list clean-up

\* surface strings by token position
Words == <<"John", "Smith", "left", ".">>

TokenAt(p) == IF p + 1 \in DOMAIN Words THEN Words[p + 1] ELSE "tok"

TokensOf(b, e) == [i \in 1..(e - b) |-> TokenAt(b + i - 1)]

\* the test of line 78
Adjacent(md, mention_id, lookup_mention_id) ==
    /\ md[lookup_mention_id].begin = md[mention_id].end
    /\ md[lookup_mention_id].sentNum = md[mention_id].sentNum

\* lines 79-81
Absorb(md, mention_id, lookup_mention_id) ==
    [md EXCEPT ![mention_id].end = md[lookup_mention_id].end,
               ![mention_id].numTokens = @ + md[lookup_mention_id].numTokens,
               ![mention_id].tokenList = @ \o md[lookup_mention_id].tokenList]

\* the inner while of lines 74-86, idx counted from 1
RECURSIVE StitchSearch(_, _, _, _)
StitchSearch(list, md, idx, inc) ==
    IF idx + inc <= Len(list) /\ Adjacent(md, list[idx], list[idx + inc])
    THEN StitchSearch(list, Absorb(md, list[idx], list[idx + inc]), idx, inc + 1)
    ELSE [md |-> md, inc |-> inc]

\* the outer while of lines 69-91
RECURSIVE StitchScan(_, _, _, _)
StitchScan(list, md, idx, stitched) ==
    IF idx > Len(list) THEN [list |-> stitched, md |-> md]
    ELSE IF md[list[idx]].type = "Name"
         THEN LET r == StitchSearch(list, md, idx, 1)
              IN StitchScan(list, r.md, idx + r.inc, Append(stitched, list[idx]))
         ELSE StitchScan(list, md, idx + 1, Append(stitched, list[idx]))

stitch_names(list, md) ==
    LET r == StitchScan(list, md, 1, <<>>)
    IN [list |-> r.list, dict |-> [id \in Range(r.list) |-> r.md[id]]]

SameSpan(x, y) == x.sentNum = y.sentNum /\ x.begin = y.begin /\ x.end = y.end

\* lines 98-108: the ids collected in remove_ids
RemoveIdsLater(list, md) ==
    SelectSeq([i \in DOMAIN list |->
                  IF \E j \in 1..(i - 1) : SameSpan(md[list[i]], md[list[j]])
                  THEN <<list[i]>> ELSE <<>>],
              LAMBDA x : x # <<>>)

RemoveIds(list, md) ==
    SelectSeq([i \in DOMAIN list |->
                  IF \E j \in (i + 1)..Len(list) : SameSpan(md[list[i]], md[list[j]])
                  THEN <<list[i]>> ELSE <<>>],
              LAMBDA x : x # <<>>)

\* list.remove(x): drops the first occurrence
RemoveFirst(list, x) ==
    LET S == {i \in DOMAIN list : list[i] = x}
    IN IF S = {} THEN list ELSE RemoveAt(list, CHOOSE i \in S : \A j \in S : i <= j)

\* lines 109-111
RECURSIVE RemoveAll(_, _, _)
RemoveAll(list, md, ids) ==
    IF ids = <<>> THEN [list |-> list, dict |-> md]
    ELSE RemoveAll(RemoveFirst(list, Head(ids)[1]),
                   [id \in DOMAIN md \ {Head(ids)[1]} |-> md[id]],
                   Tail(ids))

remove_duplicates(list, md) == RemoveAll(list, md, RemoveIds(list, md))

\* the sort key of line 116
KeyLess(x, y) ==
    \/ x.sentNum < y.sentNum
    \/ x.sentNum = y.sentNum /\ x.begin < y.begin
    \/ x.sentNum = y.sentNum /\ x.begin = y.begin /\ x.end < y.end

\* sorted() is stable: an element goes after the elements that are not greater
RECURSIVE sort_mentions(_, _)
sort_mentions(list, md) ==
    IF list = <<>> THEN <<>>
    ELSE LET n == Len(list)
             rest == sort_mentions(SubSeq(list, 1, n - 1), md)
             x == list[n]
             before == SelectSeq(rest, LAMBDA y : ~KeyLess(md[x], md[y]))
             after == SelectSeq(rest, LAMBDA y : KeyLess(md[x], md[y]))
         IN before \o <<x>> \o after

\* ------------------------------------------------------------------ SpecStitch, SpecDedup

SentNums == {1, 2}

\* mentions as make_mention builds them, ids in extraction order
RawMentions(n, kinds) ==
    {[i \in 0..(n - 1) |->
        [Mention(i) EXCEPT !.sentNum = f[i][1], !.begin = f[i][2], !.end = f[i][3],
                           !.numTokens = f[i][3] - f[i][2],
                           !.tokenList = TokensOf(f[i][2], f[i][3]), !.type = f[i][4]]] :
     f \in [0..(n - 1) -> kinds]}

IdList(n) == [i \in 1..n |-> i - 1]

InitRest ==
    /\ files = NoFiles
    /\ conll_list = Bound(<<>>)
    /\ args = DefaultArgs
    /\ tree_list = <<>>
    /\ mentionID = Len(in_list)
    /\ sentenceDict = <<>>
    /\ mention_id_list = <<>>
    /\ mention_dict = <<>>
    /\ dict_order = <<>>
    /\ cluster_list = <<>>
    /\ lastCall = NoCall
    /\ merge = NoMerge
    /\ output = <<>>

\* one-token candidates of the types Name and NP
InitStitch ==
    /\ pc = "raw"
    /\ \E n \in 0..MaxLen :
          /\ in_list = IdList(n)
          /\ in_dict \in RawMentions(n, {<<s, b, b + 1, t>> :
                                           s \in SentNums, b \in 0..(MaxLen - 1), t \in {"Name", "NP"}})
    /\ InitRest

StitchNames ==
    /\ pc = "raw"
    /\ LET r == stitch_names(in_list, in_dict)
       IN /\ mention_id_list' = r.list
          /\ mention_dict' = r.dict
    /\ pc' = "stitched"
    /\ UNCHANGED <<tree_list, mentionID, sentenceDict, dict_order, cluster_list, lastCall,
                   merge, in_list, in_dict, output,
                   files, conll_list, args>>

NextStitch == StitchNames

SpecStitch == InitStitch /\ [][NextStitch]_vars

\* mentions of one or two tokens, as stitch_names returns them
InitDedup ==
    /\ pc = "stitched"
    /\ \E n \in 0..MaxLen :
          /\ in_list = IdList(n)
          /\ in_dict \in RawMentions(n, {<<s, b, e, t>> :
                                           s \in SentNums, b \in 0..1, e \in 1..2, t \in {"Name", "NP"}}
                                        \ {<<s, 1, 1, t>> : s \in SentNums, t \in {"Name", "NP"}})
    /\ InitRest

RemoveDuplicates ==
    /\ pc = "stitched"
    /\ LET r == remove_duplicates(in_list, in_dict)
       IN /\ mention_id_list' = r.list
          /\ mention_dict' = r.dict
    /\ pc' = "deduped"
    /\ UNCHANGED <<tree_list, mentionID, sentenceDict, dict_order, cluster_list, lastCall,
                   merge, in_list, in_dict, output,
                   files, conll_list, args>>

SortMentions ==
    /\ pc = "deduped"
    /\ mention_id_list' = sort_mentions(mention_id_list, mention_dict)
    /\ pc' = "sorted"
    /\ UNCHANGED <<tree_list, mentionID, sentenceDict, mention_dict, dict_order, cluster_list,
                   lastCall, merge, in_list, in_dict, output,
                   files, conll_list, args>>

NextDedup == RemoveDuplicates \/ SortMentions

SpecDedup == InitDedup /\ [][NextDedup]_vars

\* ------------------------------------------------------------------ properties of the clean-up

PosIn(list, id) == CHOOSE i \in DOMAIN list : list[i] = id

Group(list, md, id) == {x \in Range(list) : SameSpan(md[x], md[id])}

\* C5 as claimed: of the mentions of the input of remove_duplicates that share
\* (sentNum, begin, end) exactly one survives, the one that comes first in the
\* input list; a mention with a span of its own is kept.
C5_FirstSurvives ==
    pc \in {"deduped", "sorted"} =>
        \A id \in Range(in_list) :
           LET g == Group(in_list, in_dict, id)
           IN /\ Cardinality(g \cap Range(mention_id_list)) = 1
              /\ Cardinality(g \cap DOMAIN mention_dict) = 1
              /\ \A x \in g \cap DOMAIN mention_dict :
                    \A y \in g : PosIn(in_list, x) <= PosIn(in_list, y)

\* C5 as the code has it: of the mentions that share (sentNum, begin, end) exactly
\* one survives, the one that comes last in the input list, unaltered; a mention
\* with a span of its own is kept.
C5_LastSurvives ==
    pc \in {"deduped", "sorted"} =>
        /\ DOMAIN mention_dict = Range(mention_id_list)
        /\ Len(mention_id_list) = Cardinality(Range(mention_id_list))
        /\ \A id \in Range(in_list) :
              LET g == Group(in_list, in_dict, id)
              IN /\ Cardinality(g \cap Range(mention_id_list)) = 1
                 /\ \A x \in g \cap DOMAIN mention_dict :
                       /\ \A y \in g : PosIn(in_list, x) >= PosIn(in_list, y)
                       /\ mention_dict[x] = in_dict[x]

C5_Witness ==
    /\ pc = "deduped"
    /\ Len(in_list) = 3
    /\ Len(mention_id_list) = 2
    /\ \E x, y \in Range(in_list) :
          /\ x # y
          /\ SameSpan(in_dict[x], in_dict[y])
          /\ in_dict[x].type # in_dict[y].type
          /\ y \in DOMAIN mention_dict

\* the number of mentions after position i that the rule of C6 absorbs into the
\* mention at i: Name mentions of the same sentence, each beginning where the
\* previous one ends
RECURSIVE ClaimedRun(_, _, _)
ClaimedRun(list, md, i) ==
    IF /\ i + 1 <= Len(list)
       /\ md[list[i + 1]].type = "Name"
       /\ md[list[i + 1]].sentNum = md[list[i]].sentNum
       /\ md[list[i + 1]].begin = md[list[i]].end
    THEN 1 + ClaimedRun(list, md, i + 1)
    ELSE 0

RECURSIVE ConcatTokens(_, _, _, _)
ConcatTokens(list, md, i, j) ==
    IF i > j THEN <<>> ELSE md[list[i]].tokenList \o ConcatTokens(list, md, i + 1, j)

\* C6: stitch_names absorbs a following mention only while it is a Name of the same
\* sentence that begins where the current mention ends; a maximal run becomes one
\* mention from the first begin to the last end with the tokens in order, the
\* absorbed mentions are gone from list and dict, and a mention of another type is
\* neither absorbed nor altered.
C6_StitchOnlyNames ==
    pc = "stitched" =>
        /\ DOMAIN mention_dict = Range(mention_id_list)
        /\ \A id \in Range(in_list) :
              in_dict[id].type # "Name" =>
                 id \in DOMAIN mention_dict /\ mention_dict[id] = in_dict[id]
        /\ \A id \in Range(in_list) \ Range(mention_id_list) :
              /\ in_dict[id].type = "Name"
              /\ PosIn(in_list, id) > 1
              /\ in_dict[in_list[PosIn(in_list, id) - 1]].type = "Name"
              /\ Adjacent(in_dict, in_list[PosIn(in_list, id) - 1], id)
        /\ \A id \in Range(mention_id_list) :
              in_dict[id].type = "Name" =>
                 LET i == PosIn(in_list, id)
                     r == ClaimedRun(in_list, in_dict, i)
                 IN /\ mention_dict[id].begin = in_dict[id].begin
                    /\ mention_dict[id].end = in_dict[in_list[i + r]].end
                    /\ mention_dict[id].tokenList = ConcatTokens(in_list, in_dict, i, i + r)
                    /\ mention_dict[id].numTokens = Len(mention_dict[id].tokenList)
                    /\ \A k \in (i + 1)..(i + r) : in_list[k] \notin Range(mention_id_list)

\* ------------------------------------------------------------------ parse trees

\* an element <node> of a parse: its attributes ("" when absent), the index of its
\* parent in the document order of the tree (0 for the root element), and attrs,
\* the attributes among begin, end and word that the element carries
Node(parent, cat, pos, b, e, word) ==
    [parent |-> parent, cat |-> cat, pos |-> pos, lcat |-> "", ntype |-> "", pdtype |-> "",
     frame |-> "", begin |-> b, end |-> e, word |-> word,
     attrs |-> IF word = "" THEN {"begin", "end"} ELSE {"begin", "end", "word"}]

LeafKinds == {"det", "noun", "adv", "name", "pron"}

WordOf(kind) ==
    CASE kind = "det" -> "de"
      [] kind = "noun" -> "man"
      [] kind = "adv" -> "ook"
      [] kind = "name" -> "Jan"
      [] OTHER -> "hij"

\* a leaf; a noun outside a phrase is a one-word noun phrase (lcat np, ntype soort)
Leaf(parent, kind, p) ==
    [Node(parent, "", kind, p, p + 1, WordOf(kind)) EXCEPT
        !.lcat = IF kind = "noun" /\ parent = 1 THEN "np" ELSE "",
        !.ntype = IF kind = "noun" /\ parent = 1 THEN "soort" ELSE "",
        !.pdtype = IF kind = "pron" THEN "pron" ELSE ""]

\* the text of <sentence>: the words with single blanks between them
RECURSIVE SentenceText(_)
SentenceText(kinds) ==
    IF kinds = <<>> THEN <<>>
    ELSE IF Len(kinds) = 1 THEN <<WordOf(kinds[1])>>
    ELSE <<WordOf(kinds[1]), " ">> \o SentenceText(Tail(kinds))

\* the sentence with these leaves under the top node, the leaves i..j-1 under a
\* phrase of category cat when phrase = <<i, j, cat>>
TreeNodes(kinds, phrase) ==
    LET L == Len(kinds)
        top == Node(0, "top", "", 0, L, "")
    IN IF phrase = <<>>
       THEN <<top>> \o [p \in 1..L |-> Leaf(1, kinds[p], p - 1)]
       ELSE LET i == phrase[1]
                j == phrase[2]
            IN <<top>>
               \o [p \in 1..i |-> Leaf(1, kinds[p], p - 1)]
               \o <<Node(1, phrase[3], "", i, j, "")>>
               \o [p \in 1..(j - i) |-> Leaf(i + 2, kinds[i + p], i + p - 1)]
               \o [p \in 1..(L - j) |-> Leaf(1, kinds[j + p], j + p - 1)]

Phrases(L) ==
    {<<>>} \cup {<<p[1], p[2], "np">> : p \in {q \in (0..(L - 1)) \X (1..L) : q[1] < q[2]}}

\* a parse: its <node> elements, the number in its <comment>, the text of its
\* <sentence> (<<>> for the None of an element without text), and elements, the
\* ones of <comment> and <sentence> that it has
TreesOfLen(L, sentNum) ==
    {[sentNum |-> sentNum, sentence |-> SentenceText(x[1]), nodes |-> TreeNodes(x[1], x[2]),
      elements |-> {"comment", "sentence"}] :
        x \in [1..L -> LeafKinds] \X Phrases(L)}

\* the documents of n sentences with at most budget tokens, numbered from s
RECURSIVE Docs(_, _, _)
Docs(n, budget, s) ==
    IF n = 0 THEN {<<>>}
    ELSE UNION {{<<t>> \o rest : t \in TreesOfLen(L, s), rest \in Docs(n - 1, budget - L, s + 1)} :
                L \in 1..(budget - (n - 1))}

\* the document without the attribute missing[3] of node missing[2] of tree missing[1]
Drop(trees, missing) ==
    IF missing = <<>> THEN trees
    ELSE [trees EXCEPT ![missing[1]].nodes[missing[2]].attrs = @ \ {missing[3]}]

\* a document, whole or with one span attribute of one node below the top missing
Malformed(trees) ==
    {Drop(trees, missing) :
        missing \in {<<>>} \cup {m \in (DOMAIN trees) \X (2..(MaxDocTokens + 2)) \X {"begin", "end"} :
                                   m[2] \in DOMAIN trees[m[1]].nodes}}

\* ------------------------------------------------------------------ detect_mentions

\* Element.iter(): the element and its descendants in document order
RECURSIVE InSubtree(_, _, _)
InSubtree(nodes, root, i) ==
    IF i = root THEN TRUE
    ELSE IF i = 0 \/ nodes[i].parent = 0 THEN FALSE
    ELSE InSubtree(nodes, root, nodes[i].parent)

Iter(nodes, root) == SelectSeq([i \in DOMAIN nodes |-> i], LAMBDA i : InSubtree(nodes, root, i))

\* findall(".//node[@a='v']..."): the elements that carry every attribute value of
\* tests, in document order
FindAll(nodes, tests) ==
    SelectSeq([i \in DOMAIN nodes |-> i],
              LAMBDA i : \A k \in DOMAIN tests : nodes[i][tests[k][1]] = tests[k][2])

\* findall(".//node[@pos='det']../node[@pos='noun']"): the parents of the
\* determiners, each once, in the order of their first determiner, and of each its
\* noun children; the root element (0) is a parent like any other
RECURSIVE DetParents(_, _, _)
DetParents(nodes, dets, seen) ==
    IF dets = <<>> THEN <<>>
    ELSE LET par == nodes[Head(dets)].parent
         IN IF par \in seen THEN DetParents(nodes, Tail(dets), seen)
            ELSE <<par>> \o DetParents(nodes, Tail(dets), seen \cup {par})

RECURSIVE NounChildren(_, _)
NounChildren(nodes, parents) ==
    IF parents = <<>> THEN <<>>
    ELSE SelectSeq([i \in DOMAIN nodes |-> i],
                   LAMBDA i : nodes[i].parent = Head(parents) /\ nodes[i].pos = "noun")
         \o NounChildren(nodes, Tail(parents))

FindDetN(nodes) ==
    NounChildren(nodes, DetParents(nodes, FindAll(nodes, <<<<"pos", "det">>>>), {}))

\* the words of line 128-130
RECURSIVE WordsOf(_, _)
WordsOf(nodes, idxs) ==
    IF idxs = <<>> THEN <<>>
    ELSE (IF "word" \in nodes[Head(idxs)].attrs THEN <<nodes[Head(idxs)].word>> ELSE <<>>)
         \o WordsOf(nodes, Tail(idxs))

\* lines 124-125 raise KeyError
MakeMentionRaisesNever(node) == FALSE

MakeMentionRaises(node) == "begin" \notin node.attrs \/ "end" \notin node.attrs

make_mention(nodes, i, mention_type, sentNum, id) ==
    [Mention(id) EXCEPT !.type = mention_type,
                        !.begin = nodes[i].begin,
                        !.end = nodes[i].end,
                        !.numTokens = nodes[i].end - nodes[i].begin,
                        !.sentNum = sentNum,
                        !.tokenList = WordsOf(nodes, Iter(nodes, i))]

\* lines 148-156: the words of the noun phrase without its adverbs at begin
RECURSIVE TrimAdverbs(_, _, _)
TrimAdverbs(nodes, idxs, ment) ==
    IF idxs = <<>> THEN [ment |-> ment, err |-> FALSE]
    ELSE LET node == nodes[Head(idxs)]
         IN IF "word" \notin node.attrs THEN TrimAdverbs(nodes, Tail(idxs), ment)
            ELSE IF node.pos = "adv" /\ "begin" \notin node.attrs THEN [ment |-> ment, err |-> TRUE]
            ELSE IF node.pos = "adv" /\ ment.begin = node.begin
                 THEN TrimAdverbs(nodes, Tail(idxs),
                                  [ment EXCEPT !.begin = @ + 1, !.numTokens = @ - 1])
                 ELSE TrimAdverbs(nodes, Tail(idxs),
                                  [ment EXCEPT !.tokenList = Append(@, node.word)])

\* lines 163-166
WidenLeft(ment) ==
    [ment EXCEPT !.begin = @ - 1, !.numTokens = @ + 1, !.tokenList = <<"err">> \o @]

Tag(idxs, mention_type) == [k \in DOMAIN idxs |-> <<idxs[k], mention_type>>]

\* the nodes of one tree in the order of lines 146-180, each with its mention type
Selected(nodes) ==
    Tag(FindAll(nodes, <<<<"cat", "np">>>>), "NP")
    \o Tag(FindAll(nodes, <<<<"lcat", "np">>, <<"ntype", "soort">>>>), "NP2")
    \o Tag(FindDetN(nodes), "DetN")
    \o Tag(FindAll(nodes, <<<<"cat", "mwu">>>>), "MWU")
    \o Tag(FindAll(nodes, <<<<"cat", "du">>>>), "DU")
    \o Tag(FindAll(nodes, <<<<"pdtype", "pron">>>>), "Pronoun")
    \o Tag(FindAll(nodes, <<<<"frame", "determiner(pron)">>>>), "Pronoun")
    \o Tag(FindAll(nodes, <<<<"pos", "name">>>>), "Name")

\* the mentions of the selected nodes from the k-th on; st holds mentionID, the
\* mentions made so far and whether an exception was raised
RECURSIVE MakeMentions(_, _, _, _, _)
MakeMentions(nodes, sel, k, sentNum, st) ==
    IF k > Len(sel) \/ st.err THEN st
    ELSE LET i == sel[k][1]
             ty == sel[k][2]
             id == st.mentionID
             counted == [st EXCEPT !.mentionID = @ + 1]
         IN IF MakeMentionRaises(nodes[i]) THEN [counted EXCEPT !.err = TRUE]
            ELSE LET m == make_mention(nodes, i, ty, sentNum, id)
                     np == TrimAdverbs(nodes, Iter(nodes, i), [m EXCEPT !.tokenList = <<>>])
                 IN IF ty = "NP" /\ np.err THEN [counted EXCEPT !.err = TRUE]
                    ELSE MakeMentions(nodes, sel, k + 1, sentNum,
                            [counted EXCEPT !.mentions =
                                Append(@, IF ty = "NP" THEN np.ment
                                          ELSE IF ty = "DetN" THEN WidenLeft(m)
                                          ELSE m)])

\* lines 141-144 raise: find() gives None for an element that the parse lacks
HeaderRaises(tree) == tree.elements # {"comment", "sentence"}

\* the loop of lines 138-183 from the t-th tree on
RECURSIVE DetectTrees(_, _, _)
DetectTrees(trees, t, st) ==
    IF t > Len(trees) \/ st.err THEN st
    ELSE LET tree == trees[t]
             named == [st EXCEPT !.sentenceDict =
                          [s \in DOMAIN st.sentenceDict \cup {tree.sentNum} |->
                              IF s = tree.sentNum THEN tree.sentence ELSE st.sentenceDict[s]]]
         IN IF HeaderRaises(tree) THEN [st EXCEPT !.err = TRUE]
            ELSE DetectTrees(trees, t + 1,
                             MakeMentions(tree.nodes, Selected(tree.nodes), 1, tree.sentNum, named))

\* lines 136-199
detect_mentions(trees, firstID) ==
    LET st == DetectTrees(trees, 1, [mentionID |-> firstID, mentions |-> <<>>,
                                     sentenceDict |-> <<>>, err |-> FALSE])
        ids == [k \in DOMAIN st.mentions |-> st.mentions[k].ID]
        byId == [id \in Range(ids) |-> st.mentions[CHOOSE k \in DOMAIN ids : ids[k] = id]]
        stitched == stitch_names(ids, byId)
        unique == remove_duplicates(stitched.list, stitched.dict)
    IN [err |-> st.err, mentionID |-> st.mentionID, sentenceDict |-> st.sentenceDict,
        list |-> IF st.err THEN <<>> ELSE sort_mentions(unique.list, unique.dict),
        dict |-> IF st.err THEN <<>> ELSE unique.dict]

\* ------------------------------------------------------------------ generate_conll

Digits == <<"0", "1", "2", "3", "4", "5", "6", "7", "8", "9">>

\* str() of an integer, character by character
RECURSIVE Str(_)
Str(n) ==
    IF n < 0 THEN <<"-">> \o Str(-n)
    ELSE IF n < 10 THEN <<Digits[n + 1]>>
    ELSE Str(n \div 10) \o <<Digits[(n % 10) + 1]>>

\* text.split(' ')
RECURSIVE Split(_)
Split(text) ==
    IF text = <<>> THEN <<"">>
    ELSE IF Head(text) = " " THEN <<"">> \o Split(Tail(text))
    ELSE LET rest == Split(Tail(text))
         IN <<Head(text) \o Head(rest)>> \o Tail(rest)

\* line 256-257: the closing bracket
ClosesAtBegin(token_idx, mention) == token_idx = mention.begin

ClosesAt(token_idx, mention) == token_idx + 1 = mention.end

\* lines 246-257 for one mention
LabelStep(corefLabel, token_idx, mention, key) ==
    IF mention.sentNum # key THEN corefLabel
    ELSE LET opened == IF token_idx = mention.begin
                       THEN (IF corefLabel # <<>> THEN corefLabel \o <<"|">> ELSE corefLabel) \o <<"(">>
                       ELSE corefLabel
             inside == IF token_idx >= mention.begin /\ token_idx < mention.end
                       THEN (IF opened # <<>> /\ opened[Len(opened)] # "("
                             THEN opened \o <<"|">> ELSE opened) \o Str(mention.clusterID)
                       ELSE opened
         IN IF ClosesAt(token_idx, mention) THEN inside \o <<")">> ELSE inside

\* lines 244-259 for one token
RECURSIVE CorefLabel(_, _, _, _, _)
CorefLabel(corefLabel, token_idx, key, md, order) ==
    IF order = <<>> THEN (IF corefLabel = <<>> THEN <<"-">> ELSE corefLabel)
    ELSE CorefLabel(LabelStep(corefLabel, token_idx, md[Head(order)], key),
                    token_idx, key, md, Tail(order))

\* lines 242-262: the lines written, <<sentence, token, label>> per token and an
\* empty line after each sentence; line 243 raises for a sentence without text
RECURSIVE WriteSentences(_, _, _, _)
WriteSentences(keys, sd, md, order) ==
    IF keys = <<>> THEN [err |-> FALSE, lines |-> <<>>]
    ELSE LET key == Head(keys)
             tokens == Split(sd[key])
             rest == WriteSentences(Tail(keys), sd, md, order)
         IN IF sd[key] = <<>> THEN [err |-> TRUE, lines |-> <<>>]
            ELSE [err |-> rest.err,
                  lines |-> [t \in DOMAIN tokens |->
                                <<key, tokens[t], CorefLabel(<<>>, t - 1, key, md, order)>>]
                            \o << <<>> >>
                            \o rest.lines]

\* lines 240 and 264
BeginTag == "#begin document (doc); part 000"
EndTag == "#end document"

\* lines 236-264: the lines handed to write(), and whether the call raised
generate_conll(keys, sd, md, order, doc_tags) ==
    LET body == WriteSentences(keys, sd, md, order)
    IN [err |-> body.err,
        lines |-> (IF doc_tags THEN << <<BeginTag>> >> ELSE <<>>)
                  \o body.lines
                  \o (IF doc_tags /\ ~body.err THEN << <<EndTag>> >> ELSE <<>>)]

\* lines 288-291
RECURSIVE sieveDummy(_, _, _, _)
sieveDummy(list, cl, md, idx) ==
    IF idx >= Len(list) THEN [cl |-> cl, md |-> md, err |-> FALSE]
    ELSE IF idx % 2 = 1
         THEN LET r == mergeClustersByMentionIDs(cl, md, list[idx + 1], list[idx])
              IN IF r.err THEN r ELSE sieveDummy(list, r.cl, r.md, idx + 1)
         ELSE sieveDummy(list, cl, md, idx + 1)

\* ------------------------------------------------------------------ the input files

\* a line of the CoNLL file: the tab-separated fields of the stripped line, whether
\* the first of them begins with #, whether blanks lead or trail the line, and
\* whether a newline ends it
Line(fields, hash, lead, trail, nl) ==
    [fields |-> fields, hash |-> hash, lead |-> lead, trail |-> trail, nl |-> nl]

TokenLine(word) == Line(<<"doc", word, "-">>, FALSE, FALSE, FALSE, TRUE)
BlankLine == Line(<<"">>, FALSE, FALSE, FALSE, TRUE)
HeaderLine == Line(<<"doc_id", "word", "coref">>, FALSE, FALSE, FALSE, TRUE)
BeginLine == Line(<<BeginTag>>, TRUE, FALSE, FALSE, TRUE)
EndLine == Line(<<EndTag>>, TRUE, FALSE, FALSE, FALSE)
PaddedEndLine == Line(<<EndTag>>, TRUE, FALSE, TRUE, FALSE)

\* line 39: line[0] is the first character of the unstripped line
Kept(line) ==
    Len(line.fields) > 1 /\ line.fields[1] # "doc_id" /\ ~(line.hash /\ ~line.lead)

\* line 41: the second test compares the unstripped line
EndsSentence(line) ==
    \/ line.fields = <<"">>
    \/ line.fields = <<EndTag>> /\ ~line.lead /\ ~line.trail /\ ~line.nl

\* lines 33-43
read_conll_file(lines) ==
    LET kept == SelectSeq(lines, Kept)
    IN [conll_list |-> [k \in DOMAIN kept |-> kept[k].fields],
        num_sentences |-> Cardinality({i \in DOMAIN lines : EndsSentence(lines[i])})]

\* a directory entry: the name without its last four characters (stem, when that
\* is a numeral: number), whether these four are .xml, and for a file .xml whether
\* it is well-formed and the parse it holds
Entry(stem, ext, wellformed, tree) ==
    [stem |-> stem, number |-> TRUE, ext |-> ext, wellformed |-> wellformed, tree |-> tree]

NoTree == [sentNum |-> 0, sentence |-> <<>>, nodes |-> <<>>, elements |-> {}]

\* line 52: list.sort(key=int) is stable
RECURSIVE InsertByNumber(_, _)
InsertByNumber(sorted, e) ==
    IF sorted = <<>> THEN <<e>>
    ELSE IF sorted[Len(sorted)].stem <= e.stem THEN Append(sorted, e)
    ELSE Append(InsertByNumber(SubSeq(sorted, 1, Len(sorted) - 1), e), sorted[Len(sorted)])

RECURSIVE SortByNumber(_)
SortByNumber(dir) ==
    IF dir = <<>> THEN <<>>
    ELSE InsertByNumber(SortByNumber(SubSeq(dir, 1, Len(dir) - 1)), dir[Len(dir)])

\* the files stem.xml of the directory
XmlFile(dir, stem) == {i \in DOMAIN dir : dir[i].number /\ dir[i].stem = stem /\ dir[i].ext = "xml"}

\* lines 54-60 from the sorted names on: line 57 parses stem.xml; without that file
\* the IOError is caught and the local tree stays as it is, a file that is not
\* well-formed raises ParseError, and line 60 raises when nothing has bound tree
RECURSIVE ReadTrees(_, _, _, _)
ReadTrees(dir, names, tree, xml_tree_list) ==
    IF names = <<>> THEN [err |-> FALSE, list |-> xml_tree_list]
    ELSE LET found == XmlFile(dir, Head(names).stem)
             file == dir[CHOOSE i \in found : TRUE]
             parsed == IF found = {} THEN tree ELSE Bound(file.tree)
         IN IF found # {} /\ ~file.wellformed THEN [err |-> TRUE, list |-> <<>>]
            ELSE IF ~parsed.bound THEN [err |-> TRUE, list |-> <<>>]
            ELSE ReadTrees(dir, Tail(names), parsed, Append(xml_tree_list, parsed.value))

\* lines 46-61: listdir raises without the directory, and int() of line 52 raises
\* for a name that is no numeral
read_xml_parse_files(f) ==
    IF ~f.listable THEN [err |-> TRUE, list |-> <<>>]
    ELSE IF \E i \in DOMAIN f.xml : ~f.xml[i].number THEN [err |-> TRUE, list |-> <<>>]
    ELSE ReadTrees(f.xml, SortByNumber(f.xml), Unbound, <<>>)

\* s[:n]
Take(s, n) == SubSeq(s, 1, IF n < Len(s) THEN n ELSE Len(s))

\* line 294
DefaultNumSentences == 9999

\* the lines of the CoNLL file of the first k sentences of a document
RECURSIVE SentenceLines(_, _)
SentenceLines(trees, k) ==
    IF k = 0 THEN <<>>
    ELSE SentenceLines(trees, k - 1)
         \o [t \in DOMAIN Split(trees[k].sentence) |-> TokenLine(Split(trees[k].sentence)[t])]
         \o <<BlankLine>>

ConllOf(trees, k, style) ==
    CASE style = "header" -> <<HeaderLine>> \o SentenceLines(trees, k)
      [] style = "tags" -> <<BeginLine>> \o SentenceLines(trees, k) \o <<EndLine>>
      [] style = "padded" -> <<BeginLine>> \o SentenceLines(trees, k) \o <<PaddedEndLine>>
      [] OTHER -> SentenceLines(trees, k)

ConllFile(lines) == [present |-> TRUE, lines |-> lines]

\* the CoNLL files to go with a document: none, the file of its first k sentences,
\* or the file of all its sentences with a header line or with document tags
ConllFiles(trees) ==
    {NoFiles.conll}
    \cup {ConllFile(ConllOf(trees, k, "plain")) : k \in 0..Len(trees)}
    \cup {ConllFile(ConllOf(trees, Len(trees), style)) : style \in {"header", "tags", "padded"}}

\* the directory with the parse k.xml of the k-th sentence, listed in this order
XmlDir(trees) == [k \in DOMAIN trees |-> Entry(k, "xml", TRUE, trees[k])]

Reverse(s) == [i \in DOMAIN s |-> s[Len(s) + 1 - i]]

\* an entry that is no file .xml, and one whose name is no numeral
Other(stem) == Entry(stem, "txt", FALSE, NoTree)
Stray == [Other(0) EXCEPT !.number = FALSE]

\* the directories to go with a document: its parses listed in order or in reverse,
\* one of them under another name, the last of them not well-formed or listed
\* under a second name, or a further entry
XmlDirs(trees) ==
    LET dir == XmlDir(trees)
        last == Len(dir)
    IN {dir, Reverse(dir), Append(dir, Stray)}
       \cup {[dir EXCEPT ![k] = Other(k)] : k \in DOMAIN dir}
       \cup {[dir EXCEPT ![k].wellformed = FALSE] : k \in {last} \cap DOMAIN dir}
       \cup {<<Other(k)>> \o dir : k \in {last} \cap DOMAIN dir}

\* the document with the k-th parse lacking the text of its sentence
Wordless(trees) == {[trees EXCEPT ![k].sentence = <<>>] : k \in DOMAIN trees}

\* the document with the k-th parse lacking an element, or the text of its sentence
Incomplete(trees) ==
    {[trees EXCEPT ![k].elements = @ \ {el}] : k \in DOMAIN trees, el \in {"comment", "sentence"}}
    \cup Wordless(trees)

Input(conll, dir) == [conll |-> conll, listable |-> TRUE, xml |-> dir]

\* a document without phrases
Flat(trees) == \A t \in DOMAIN trees : \A i \in DOMAIN trees[t].nodes : trees[t].nodes[i].cat # "np"

\* the inputs for a document, with at most one defect: a span attribute missing
\* from a node, or, for a document without phrases, a defect elsewhere in a parse,
\* in the CoNLL file or in the directory
InputsOf(trees) ==
    LET whole == ConllFile(ConllOf(trees, Len(trees), "plain"))
    IN {Input(whole, XmlDir(m)) : m \in Malformed(trees)}
       \cup (IF Flat(trees)
              THEN {Input(whole, XmlDir(m)) : m \in Incomplete(trees)}
                   \cup {Input(c, XmlDir(trees)) : c \in ConllFiles(trees)}
                   \cup {Input(whole, dir) : dir \in XmlDirs(trees)}
              ELSE {})

\* the inputs that main() is run on with other arguments than the default ones
OptionInputsOf(trees) ==
    LET whole == ConllFile(ConllOf(trees, Len(trees), "plain"))
    IN IF Flat(trees) THEN {Input(whole, XmlDir(m)) : m \in {trees} \cup Wordless(trees)}
       ELSE {}

Args == [doc_tags : BOOLEAN, verbosity : {"low", "high"}]

\* the arguments with one option given
OptionArgs == {a \in Args : a.doc_tags # (a.verbosity = "high")}

\* ------------------------------------------------------------------ SpecMain: main()

InitMain ==
    /\ pc = "init"
    /\ \/ files = NoFiles /\ args = DefaultArgs
       \/ \E n \in 0..MaxTrees : \E trees \in Docs(n, MaxDocTokens, 1) :
             \/ files \in InputsOf(trees) /\ args = DefaultArgs
             \/ files \in OptionInputsOf(trees) /\ args \in OptionArgs
    /\ conll_list = Unbound
    /\ tree_list = <<>>
    /\ mentionID = 0
    /\ sentenceDict = <<>>
    /\ mention_id_list = <<>>
    /\ mention_dict = <<>>
    /\ dict_order = <<>>
    /\ cluster_list = <<>>
    /\ lastCall = NoCall
    /\ merge = NoMerge
    /\ in_list = <<>>
    /\ in_dict = <<>>
    /\ output = <<>>

\* lines 294-300: the IOError of a missing CoNLL file is caught and leaves
\* conll_list unbound; an exception of read_xml_parse_files ends the run
ReadInput ==
    /\ pc = "init"
    /\ LET read == read_conll_file(files.conll.lines)
           num_sentences == IF files.conll.present THEN read.num_sentences
                            ELSE DefaultNumSentences
           xml == read_xml_parse_files(files)
       IN /\ conll_list' = IF files.conll.present THEN Bound(read.conll_list) ELSE Unbound
          /\ tree_list' = IF xml.err THEN <<>> ELSE Take(xml.list, num_sentences)
          /\ pc' = IF xml.err THEN "crashed" ELSE "start"
    /\ UNCHANGED <<files, args, mentionID, sentenceDict, mention_id_list, mention_dict, dict_order,
                   cluster_list, lastCall, merge, in_list, in_dict, output>>

\* line 313: print_mentions_inline raises at line 208 for a sentence without text
PrintMentionsRaises(sd) == \E s \in DOMAIN sd : sd[s] = <<>>

\* lines 305-313: line 311 raises when conll_list is unbound; an exception of
\* detect_mentions ends the run before its result is assigned
DetectMentions ==
    /\ pc = "start"
    /\ IF ~conll_list.bound
       THEN /\ mentionID' = 0
            /\ sentenceDict' = <<>>
            /\ mention_id_list' = <<>>
            /\ mention_dict' = <<>>
            /\ dict_order' = <<>>
            /\ pc' = "crashed"
       ELSE LET r == detect_mentions(tree_list, 0)
            IN /\ mentionID' = r.mentionID
               /\ sentenceDict' = r.sentenceDict
               /\ mention_id_list' = r.list
               /\ mention_dict' = r.dict
               /\ dict_order' \in Perms(DOMAIN r.dict)
               /\ pc' = IF r.err THEN "crashed"
                        ELSE IF args.verbosity = "high" /\ PrintMentionsRaises(r.sentenceDict)
                        THEN "crashed"
                        ELSE "detected"
    /\ UNCHANGED <<files, conll_list, args, tree_list, cluster_list, lastCall, merge, in_list,
                   in_dict, output>>

\* line 316
SieveDummy ==
    /\ pc = "clustered"
    /\ LET r == sieveDummy(mention_id_list, cluster_list, mention_dict, 0)
       IN /\ cluster_list' = r.cl
          /\ mention_dict' = r.md
          /\ pc' = IF r.err THEN "crashed" ELSE "sieved"
    /\ UNCHANGED <<tree_list, mentionID, sentenceDict, mention_id_list, dict_order, lastCall,
                   merge, in_list, in_dict, output,
                   files, conll_list, args>>

\* line 318
GenerateConll ==
    /\ pc = "sieved"
    /\ LET r == generate_conll(SortedIds(DOMAIN sentenceDict), sentenceDict, mention_dict,
                               dict_order, args.doc_tags)
       IN /\ output' = r.lines
          /\ pc' = IF r.err THEN "crashed" ELSE "done"
    /\ UNCHANGED <<tree_list, mentionID, sentenceDict, mention_id_list, mention_dict, dict_order,
                   cluster_list, lastCall, merge, in_list, in_dict,
                   files, conll_list, args>>

NextMain == ReadInput \/ DetectMentions \/ InitializeClusters \/ SieveDummy \/ GenerateConll

SpecMain == InitMain /\ [][NextMain]_vars

\* ------------------------------------------------------------------ SpecRender: generate_conll on a clustered table

RECURSIVE Join(_)
Join(words) ==
    IF words = <<>> THEN <<>>
    ELSE IF Len(words) = 1 THEN <<words[1]>>
    ELSE <<words[1], " ">> \o Join(Tail(words))

\* the ids of the mentions that duplicate removal left
RenderIds == {7, 12}

Spans == {p \in (0..(Len(Words) - 1)) \X (1..Len(Words)) : p[1] < p[2]}

\* a table as the sieves leave it: distinct spans, every clusterID the id of a
\* mention that carries it itself
InitRender ==
    /\ pc = "sieved"
    /\ sentenceDict = [s \in {1} |-> Join(Words)]
    /\ \E ids \in SUBSET RenderIds :
          /\ \E span \in [ids -> Spans], ty \in [ids -> {"Name", "NP"}], cid \in [ids -> ids] :
                /\ \A i, j \in ids : i # j => span[i] # span[j]
                /\ \A i \in ids : cid[cid[i]] = cid[i]
                /\ mention_dict =
                      [i \in ids |->
                          [Mention(i) EXCEPT !.sentNum = 1, !.begin = span[i][1], !.end = span[i][2],
                                             !.numTokens = span[i][2] - span[i][1],
                                             !.tokenList = TokensOf(span[i][1], span[i][2]),
                                             !.type = ty[i], !.clusterID = cid[i]]]
                /\ cluster_list =
                      LET heads == SortedIds({cid[i] : i \in ids})
                      IN [k \in DOMAIN heads |->
                             [ID |-> heads[k],
                              mentionList |-> SortedIds({i \in ids : cid[i] = heads[k]})]]
          /\ mention_id_list = sort_mentions(SortedIds(ids), mention_dict)
          /\ dict_order \in Perms(ids)
    /\ files = NoFiles
    /\ conll_list = Bound(<<>>)
    /\ args \in {a \in Args : a.verbosity = "low"}
    /\ tree_list = <<>>
    /\ mentionID = 1 + Max(RenderIds)
    /\ lastCall = NoCall
    /\ merge = NoMerge
    /\ in_list = <<>>
    /\ in_dict = <<>>
    /\ output = <<>>

NextRender == GenerateConll

SpecRender == InitRender /\ [][NextRender]_vars

\* ------------------------------------------------------------------ properties of rendering and detection

\* the coreference labels written for the tokens of sentence key
Labels(out, key) ==
    LET sel == SelectSeq(out, LAMBDA l : Len(l) = 3 /\ l[1] = key)
    IN [k \in DOMAIN sel |-> sel[k][3]]

TokensWritten(out, key) ==
    LET sel == SelectSeq(out, LAMBDA l : Len(l) = 3 /\ l[1] = key)
    IN [k \in DOMAIN sel |-> sel[k][2]]

\* the document of C7: John Smith left . with the one mention [0,2) of cluster 7
C7_Input ==
    /\ sentenceDict = [s \in {1} |-> Join(<<"John", "Smith", "left", ".">>)]
    /\ DOMAIN mention_dict = {7}
    /\ mention_dict[7].sentNum = 1
    /\ mention_dict[7].begin = 0
    /\ mention_dict[7].end = 2
    /\ mention_dict[7].type = "Name"
    /\ mention_dict[7].clusterID = 7

\* C7 as claimed: for John Smith left . with the one mention [0,2) of cluster 7
\* generate_conll writes the labels (7) - - -
C7_LabelsClaimed ==
    (pc = "done" /\ C7_Input) =>
        Labels(output, 1) = << <<"(", "7", ")">>, <<"-">>, <<"-">>, <<"-">> >>

\* C7 as the code has it: for John Smith left . with the one mention [0,2) of
\* cluster 7 generate_conll writes the labels (7 7) - -
C7_LabelsRendered ==
    (pc = "done" /\ C7_Input) =>
        /\ TokensWritten(output, 1) = <<"John", "Smith", "left", ".">>
        /\ Labels(output, 1) = << <<"(", "7">>, <<"7", ")">>, <<"-">>, <<"-">> >>

C7_Witness == pc = "done" /\ C7_Input /\ Len(output) = 5

LacksSpan(node) == "begin" \notin node.attrs \/ "end" \notin node.attrs

SelectedNodes(tree) == {Selected(tree.nodes)[k][1] : k \in DOMAIN Selected(tree.nodes)}

\* some node that an extraction rule selects has no begin or no end
MalformedSelected(trees) ==
    \E t \in DOMAIN trees : \E i \in SelectedNodes(trees[t]) : LacksSpan(trees[t].nodes[i])

Covered(md, sentNum, node) ==
    \E m \in DOMAIN md :
       md[m].sentNum = sentNum /\ md[m].begin <= node.begin /\ node.end <= md[m].end

\* C8 as claimed: with a selected node that lacks begin or end the run goes on, and
\* the names and pronouns of the other nodes and sentences are in the mention table.
C8_RunContinues ==
    (pc \notin {"init", "start"} /\ MalformedSelected(tree_list)) =>
        /\ pc # "crashed"
        /\ \A t \in DOMAIN tree_list :
              /\ tree_list[t].sentNum \in DOMAIN sentenceDict
              /\ \A i \in SelectedNodes(tree_list[t]) :
                    (~LacksSpan(tree_list[t].nodes[i]) /\ tree_list[t].nodes[i].pos \in {"name", "pron"})
                       => Covered(mention_dict, tree_list[t].sentNum, tree_list[t].nodes[i])

\* C8 as the code has it: with a selected node that lacks begin or end make_mention
\* raises and the run ends there: no mention table, no clusters, no output, and no
\* later step.
C8_RunAborts ==
    (pc \notin {"init", "start"} /\ MalformedSelected(tree_list)) =>
        /\ pc = "crashed"
        /\ mention_id_list = <<>>
        /\ mention_dict = <<>>
        /\ cluster_list = <<>>
        /\ output = <<>>
        /\ ~ENABLED NextMain

C8_Witness ==
    /\ pc = "crashed"
    /\ Len(tree_list) = 2
    /\ \E i \in SelectedNodes(tree_list[1]) : LacksSpan(tree_list[1].nodes[i])
    /\ \E i \in SelectedNodes(tree_list[2]) :
          ~LacksSpan(tree_list[2].nodes[i]) /\ tree_list[2].nodes[i].pos = "name"

WellFormedTrees(trees) ==
    \A t \in DOMAIN trees : \A i \in DOMAIN trees[t].nodes :
       /\ ~LacksSpan(trees[t].nodes[i])
       /\ trees[t].nodes[i].pos # "" => "word" \in trees[t].nodes[i].attrs

\* C10: every mention of the table that detect_mentions returns for well-formed
\* trees has 0 <= begin < end, and its tokenList is as long as numTokens and as
\* end - begin.
C10_SpansWellFormed ==
    (pc \in {"detected", "clustered", "sieved", "done"} /\ WellFormedTrees(tree_list)) =>
        \A m \in DOMAIN mention_dict :
           /\ 0 <= mention_dict[m].begin
           /\ mention_dict[m].begin < mention_dict[m].end
           /\ Len(mention_dict[m].tokenList) = mention_dict[m].numTokens
           /\ mention_dict[m].numTokens = mention_dict[m].end - mention_dict[m].begin

====
